---- MODULE Spec2Model ----
(***************************************************************************)
(* A model of fireflycore/go-proxy, package grpc: the raw-bytes codec      *)
(* (raw_proto_codec.go), the service registrar (RegisterService,           *)
(* NewProxy) and the relay engine (handler.go) serving ONE inbound call.   *)
(*                                                                         *)
(* The gRPC transport, the calling client and the backend are the          *)
(* environment: their choices are the \E of the actions.                   *)
(***************************************************************************)
EXTENDS Naturals, Sequences, FiniteSets, TLC

\* ------------------------------------------------------------------ bounds
\* Longest payload, in bytes, of a message of the model.
MaxLen == 2
\* Most messages the client and the backend send in one call, together.
MaxMsgs == 2

\* The byte alphabet of the model.
Byte == {0, 1}

\* Every wire message of the model: a byte sequence of length 0..MaxLen.
Payloads == UNION {[1..n -> Byte] : n \in 0..MaxLen}

\* The wire messages the client and the backend send in the relay: one of
\* each length 0..MaxLen, its bytes telling it from the others.
Messages == {[k \in 1..n |-> n % 2] : n \in 0..MaxLen}

\* ------------------------------------------------------------- Go slices
\* A []byte is modelled by its visible bytes (data), the capacity of its
\* backing array (cap) and whether it is the nil slice.  Bytes of the
\* backing array beyond len are unobservable (the code never reslices
\* upwards) and are not kept.
NilSlice == [nil |-> TRUE, data |-> <<>>, cap |-> 0]

\* s[:0]: same backing array, length 0; nil[:0] is nil.
Reslice0(s) == [nil |-> s.nil, data |-> <<>>, cap |-> s.cap]

\* The capacity append gives a grown array (runtime growslice, for small
\* slices, without the rounding to an allocator size class).
GrowCap(oldCap, newLen) == IF newLen > 2 * oldCap THEN newLen ELSE 2 * oldCap

\* append(s, d...)
GoAppend(s, d) ==
    IF Len(d) = 0 THEN s
    ELSE IF Len(s.data) + Len(d) <= s.cap
         THEN [nil |-> FALSE, data |-> s.data \o d, cap |-> s.cap]
         ELSE [nil |-> FALSE, data |-> s.data \o d,
               cap |-> GrowCap(s.cap, Len(s.data) + Len(d))]

\* The bytes of a slice as they go on the wire (nil and empty are both
\* zero bytes).
Bytes(s) == s.data

\* ------------------------------------------------------------ RawProtoFrame
\* &RawProtoFrame{}
NewFrame == [Payload |-> NilSlice]

\* RawProtoCodec.Marshal on a *RawProtoFrame: the Payload slice itself.
Marshal(f) == f.Payload

\* A wrong Unmarshal: appends to the old payload instead of Payload[:0].
UnmarshalNoTruncate(data, f) ==
    IF Len(data) = 0
    THEN [Payload |-> NilSlice]
    ELSE [Payload |-> GoAppend(f.Payload, data)]

\* A wrong Unmarshal: returns early on empty data and leaves the frame.
UnmarshalNoClear(data, f) ==
    IF Len(data) = 0
    THEN f
    ELSE [Payload |-> GoAppend(Reslice0(f.Payload), data)]

\* RawProtoCodec.Unmarshal into a *RawProtoFrame: the frame afterwards.
Unmarshal(data, f) ==
    IF Len(data) = 0
    THEN [Payload |-> NilSlice]
    ELSE [Payload |-> GoAppend(Reslice0(f.Payload), data)]

\* Every frame a caller can hand to the codec: nil, or any bytes in a
\* backing array of any capacity that holds them.
Slices ==
    {NilSlice} \cup
    {[nil |-> FALSE, data |-> d, cap |-> c] :
        d \in Payloads, c \in 0..(2 * MaxLen)}
Frames == {[Payload |-> s] : s \in {t \in Slices : t.nil \/ Len(t.data) <= t.cap}}

\* --------------------------------------------- the memory behind a payload
\* SendMsg(f) hands Marshal(f), the slice s, to the transport, which keeps
\* it until it has written it out.  held has one entry for each payload
\* handed: at, its bytes at the hand-off; mem, for each of its bytes, the
\* values that byte of memory has held since, any of which a read by the
\* transport can return; live, whether the frame still uses that array.
Handoff(held, s) ==
    Append(held, [at |-> Bytes(s),
                  mem |-> [j \in 1..Len(s.data) |-> {s.data[j]}],
                  live |-> ~s.nil])

\* Whether append(f.Payload[:0], data...) writes data into the array
\* f.Payload has, rather than into a grown one.
InPlace(data, f) == Len(data) > 0 /\ Len(data) <= f.Payload.cap

\* What Unmarshal(data, f) makes of the memory handed so far: written in
\* place, the first Len(data) bytes of the frame's array are overwritten;
\* else (Payload = nil, or a grown array) the frame leaves its array.
Overwritten(held, data, f) ==
    IF InPlace(data, f)
    THEN [k \in DOMAIN held |->
            IF held[k].live
            THEN [held[k] EXCEPT !.mem =
                    [j \in DOMAIN @ |->
                        IF j <= Len(data) THEN @[j] \cup {data[j]} ELSE @[j]]]
            ELSE held[k]]
    ELSE [k \in DOMAIN held |-> [held[k] EXCEPT !.live = FALSE]]

\* ------------------------------------------------------------------ state
VARIABLES
    \* the grpc.Server the proxy is mounted on
    unknownHandler, \* an UnknownServiceHandler (TransparentHandler) is installed
    registered,     \* RegisterService has registered the fake service
    methodNames,    \* the methodNames RegisterService was called with
    streams,        \* fakeDesc.Streams: the StreamName of each StreamDesc
    \* Handler.Handler, for the one inbound call
    fullMethodName, \* Handler's fullMethodName, from the call to its last use
    hpc,            \* where Handler.Handler is
    i,              \* the reconciliation loop's i
    result,         \* the error Handler.Handler returned (the call's outcome)
    directorCalls,  \* how often h.director was invoked
    directed,       \* what h.director answered: "err", "nilconn", "ok"
    scope,          \* clientCtx: "none", "active" or "cancelled"
    opened,         \* how many outbound client streams were created
    closeSent,      \* clientStream.CloseSend() succeeded
    inHeader,       \* the metadata of each serverStream.SendHeader call
    inTrailer,      \* the metadata of each serverStream.SetTrailer call
    \* the two forwarding goroutines
    i2oPc, i2oF, i2oChan,
    o2iPc, o2iF, o2iChan, oi,
    i2oRet, o2iRet, \* every error each goroutine has sent on its ret
    i2oHeld, o2iHeld, \* the memory of each payload handed to SendMsg
    \* the inbound (client-facing) stream
    clientSent,     \* the wire messages the client has sent, in order
    clientClosed,   \* the client has half-closed
    inRecvd,        \* how many of clientSent serverStream.RecvMsg has returned
    toClient,       \* the wire messages serverStream.SendMsg was handed
    \* the outbound (backend-facing) stream
    toBackend,      \* the wire messages clientStream.SendMsg was handed
    backendSent,    \* the wire messages the backend has sent, in order
    backendHdr,     \* the backend's header metadata ("unset" until sent)
    backendEnd,     \* "open", or how the backend ended the call: "ok", "error"
    backendTrailer, \* the trailing metadata the backend ended the call with
    outRecvd,       \* how many of backendSent clientStream.RecvMsg has returned
    outFinished,    \* clientStream.RecvMsg has returned the backend's end
    \* the codec on its own (SpecCodec)
    cFrame,         \* the frame the last Unmarshal call wrote
    cPrev,          \* that frame before the call
    cLast,          \* <<data>> of the last Unmarshal call, <<>> before any
    rt,             \* <<f>> when that call unmarshalled Marshal(f)
    \* DefaultDirector on its own (SpecDirector)
    inMD,           \* the metadata the caller put on the inbound context
    mdHeap,         \* the metadata.MD objects: mdHeap[1] is the inbound one
    dCalls          \* one record per invocation of the director

serverVars == <<unknownHandler, registered, methodNames, streams>>
handlerVars == <<fullMethodName, hpc, i, result, directorCalls, directed,
                 scope, opened, closeSent, inTrailer>>
i2oVars == <<i2oPc, i2oF, i2oChan, i2oRet, i2oHeld>>
o2iVars == <<o2iPc, o2iF, o2iChan, o2iRet, o2iHeld, oi, inHeader>>
inboundVars == <<clientSent, clientClosed, inRecvd, toClient>>
outboundVars == <<toBackend, backendSent, backendHdr, backendEnd,
                  backendTrailer, outRecvd, outFinished>>
relayVars == <<handlerVars, i2oVars, o2iVars, inboundVars, outboundVars>>
codecVars == <<cFrame, cPrev, cLast, rt>>
directorVars == <<inMD, mdHeap, dCalls>>
vars == <<serverVars, relayVars, codecVars, directorVars>>

\* ----------------------------------------------------------------- values
\* The method names of the proxied service (the service name is fixed).
Methods == {"Echo", "Nope"}
\* The methodNames a caller may pass to RegisterService.
MethodLists == {<<>>, <<"Echo">>, <<"Nope">>, <<"Echo", "Nope">>}
\* Header and trailer metadata.
EmptyMD == "empty"
MDs == {EmptyMD, "x-target"}

\* Go error values.  Internal(e) is status.Errorf(codes.Internal, "... %v", e).
Err(k) == [kind |-> k, wrapped |-> "none"]
Internal(e) == [kind |-> "Internal", wrapped |-> e.kind]
Nil == Err("nil")
EOF == Err("EOF")

\* make(chan error, 1)
ChanCap == 1
\* for i := 0; i < 2; i++
LoopIters == 2

Range(s) == {s[k] : k \in 1..Len(s)}

\* ------------------------------------------------------------------- Init
\* One inbound call that has not been dispatched yet; no goroutine runs.
InitRelay ==
    /\ fullMethodName = "none" /\ hpc = "idle" /\ i = 0 /\ result = Err("none")
    /\ directorCalls = 0 /\ directed = "none" /\ scope = "none" /\ opened = 0
    /\ closeSent = FALSE /\ inHeader = <<>> /\ inTrailer = <<>>
    /\ i2oPc = "idle" /\ i2oF = NewFrame /\ i2oChan = <<>> /\ i2oRet = <<>>
    /\ i2oHeld = <<>> /\ o2iHeld = <<>>
    /\ o2iPc = "idle" /\ o2iF = NewFrame /\ o2iChan = <<>> /\ o2iRet = <<>> /\ oi = 0
    /\ clientSent = <<>> /\ clientClosed = FALSE /\ inRecvd = 0
    /\ toClient = <<>> /\ toBackend = <<>>
    /\ backendSent = <<>> /\ backendHdr = "unset" /\ backendEnd = "open"
    /\ backendTrailer = EmptyMD /\ outRecvd = 0 /\ outFinished = FALSE

InitCodec ==
    /\ cFrame = NewFrame /\ cPrev = NewFrame /\ cLast = <<>> /\ rt = <<>>

\* The metadata keys and the inbound metadata of the model: each key
\* absent or with the value "1".
Keys == {"x-test", "x-other"}
InboundMDs == [Keys -> {<<>>, <<"1">>}]

\* No director call yet; the caller's metadata is on the inbound context.
InitDirector ==
    /\ inMD \in InboundMDs
    /\ mdHeap = <<inMD>>
    /\ dCalls = <<>>

\* The same, for a caller that set no metadata.
InitNoMetadata ==
    /\ inMD = [k \in Keys |-> <<>>]
    /\ mdHeap = <<inMD>>
    /\ dCalls = <<>>

\* NewProxy(dst): a server with the codec option and DefaultProxyOpt, the
\* UnknownServiceHandler; nothing is registered on it.
NewProxy ==
    /\ unknownHandler = TRUE /\ registered = FALSE
    /\ methodNames = <<>> /\ streams = <<>>

\* grpc.NewServer(DefaultProxyServerOpt()): the codec option alone.
DefaultProxyServerOpt ==
    /\ unknownHandler = FALSE /\ registered = FALSE
    /\ methodNames = <<>> /\ streams = <<>>

\* The transparent proxy, as NewProxy builds it.
Init == NewProxy /\ InitRelay /\ InitCodec /\ InitNoMetadata

\* A server for restricted mode, before RegisterService.
InitRestricted ==
    DefaultProxyServerOpt /\ InitRelay /\ InitCodec /\ InitNoMetadata

\* -------------------------------------------------------------- the codec
\* codec.Unmarshal(data, f) into the frame of the last call, reused.
CodecUnmarshal(data) ==
    /\ cPrev' = cFrame
    /\ cFrame' = Unmarshal(data, cFrame)
    /\ cLast' = <<data>>
    /\ rt' = <<>>
    /\ UNCHANGED <<serverVars, relayVars, directorVars>>

\* codec.Unmarshal(codec.Marshal(f), g) for any frame f, g being a fresh
\* frame, the frame of the last call or f itself (the copy of a slice onto
\* itself leaves it as it is).
CodecRoundTrip(f, target) ==
    LET g == CASE target = "fresh" -> NewFrame
               [] target = "reused" -> cFrame
               [] target = "self" -> f
    IN  /\ cPrev' = g
        /\ cFrame' = Unmarshal(Bytes(Marshal(f)), g)
        /\ cLast' = <<Bytes(Marshal(f))>>
        /\ rt' = <<f>>
        /\ UNCHANGED <<serverVars, relayVars, directorVars>>

NextCodec ==
    \/ \E data \in Payloads : CodecUnmarshal(data)
    \/ \E f \in Frames, target \in {"fresh", "reused", "self"} :
          CodecRoundTrip(f, target)

SpecCodec == Init /\ [][NextCodec]_vars

\* ---------------------------------------------------------- the director
\* Most director invocations (inbound calls) of SpecDirector.
MaxCalls == 2
\* Most values one metadata key holds.
MaxVals == 2

\* The *grpc.ClientConn given to DefaultDirector.
BackendConn == "cc"

\* A wrong director: the incoming metadata itself is put on the outgoing
\* context, not a copy.
DirectorNoCopy(heap, ctx, cc, m) ==
    [heap |-> heap, md |-> ctx, conn |-> cc, err |-> Nil]

\* The closure DefaultDirector(cc) returns, called with the context whose
\* incoming metadata is the object ctx and with method m: md.Copy() is a
\* new metadata object with the same pairs, put on the outgoing context.
DefaultDirector(heap, ctx, cc, m) ==
    [heap |-> Append(heap, heap[ctx]), md |-> Len(heap) + 1,
     conn |-> cc, err |-> Nil]

\* The director is invoked for a call of method m; every call carries the
\* same incoming metadata object.
DirectorCall(m) ==
    /\ Len(dCalls) < MaxCalls
    /\ LET r == DefaultDirector(mdHeap, 1, BackendConn, m) IN
        /\ mdHeap' = r.heap
        /\ dCalls' = Append(dCalls,
                [method |-> m, md |-> r.md, conn |-> r.conn, err |-> r.err,
                 own |-> mdHeap[1]])
    /\ UNCHANGED <<inMD, serverVars, relayVars, codecVars>>

\* The owner of call c's outgoing context appends a value to key k of its
\* metadata; own is what that call alone has made of its metadata.
MutateOutgoing(c, k) ==
    /\ c \in 1..Len(dCalls)
    /\ Len(mdHeap[dCalls[c].md][k]) < MaxVals
    /\ mdHeap' = [mdHeap EXCEPT ![dCalls[c].md][k] = Append(@, "mut")]
    /\ dCalls' = [dCalls EXCEPT ![c].own[k] = Append(@, "mut")]
    /\ UNCHANGED <<inMD, serverVars, relayVars, codecVars>>

NextDirector ==
    \/ \E m \in Methods : DirectorCall(m)
    \/ \E c \in 1..MaxCalls, k \in Keys : MutateOutgoing(c, k)

\* A proxy that has served no call, whatever metadata the caller sends.
InitAnyMetadata == NewProxy /\ InitRelay /\ InitCodec /\ InitDirector

SpecDirector == InitAnyMetadata /\ [][NextDirector]_vars

\* ---------------------------------------------------------- the registrar
\* A wrong loop: the last method name is not registered.
AllButLast(names) == SubSeq(names, 1, Len(names) - 1)

\* Lines 137-152: fakeDesc.Streams after the loop, one StreamDesc per
\* method name, in order.
FakeDescStreams(names) == names

\* RegisterService(server, director, serviceName, methodNames...), with
\* the server.RegisterService(fakeDesc, streamer) that ends it.
RegisterService(names) ==
    /\ hpc = "idle" /\ ~registered
    /\ methodNames' = names
    /\ streams' = FakeDescStreams(names)
    /\ registered' = TRUE
    /\ UNCHANGED <<unknownHandler, relayVars, codecVars, directorVars>>

\* Whether the server hands a call of method m to Handler.Handler: m is a
\* stream of the registered service, or an UnknownServiceHandler is set.
Routed(m) == (registered /\ m \in Range(streams)) \/ unknownHandler

\* The server receives the client's call of method m and dispatches it:
\* to Handler.Handler, or it ends the call with Unimplemented itself.
Dispatch(m) ==
    /\ hpc = "idle"
    /\ fullMethodName' = m
    /\ IF Routed(m)
       THEN hpc' = "director" /\ result' = result
       ELSE hpc' = "rejected" /\ result' = Err("Unimplemented")
    /\ UNCHANGED <<i, directorCalls, directed, scope, opened, closeSent, inTrailer,
                   i2oVars, o2iVars, inboundVars, outboundVars,
                   serverVars, codecVars, directorVars>>

\* ------------------------------------------------------- Handler.Handler
\* clientCancel()
Cancel(s) == "cancelled"

\* A wrong return: the deferred clientCancel() is missing.
NoDeferredCancel(s) == s

\* defer clientCancel(): what a return makes of the scope, if it exists.
DeferredCancel(s) == IF s = "none" THEN s ELSE Cancel(s)

\* return r
HandlerReturn(r) ==
    /\ hpc' = "done"
    /\ result' = r

\* A wrong setup: the nil check of targetConn is missing.
NoNilCheck(d) == d = "ok" \/ d = "nilconn"

\* Whether the director's answer d lets the handler go on to open a stream.
DirectorOk(d) == d = "ok"

\* A wrong return: a setup error is wrapped in an Internal status.
SetupWrapped(err) == Internal(err)

\* "return err" after h.director and after grpc.NewClientStream.
SetupOutcome(err) == err

\* Lines 46-65: the method name, the director, the cancellable scope.
\* ok: MethodFromServerStream found the stream; d: the director's answer.
HandlerDirector(ok, d) ==
    /\ hpc = "director"
    /\ IF ~ok
       THEN /\ HandlerReturn(Err("InternalNoStream"))
            /\ UNCHANGED <<directorCalls, directed, scope>>
       ELSE /\ directorCalls' = directorCalls + 1
            /\ directed' = d
            /\ IF d = "err"
               THEN HandlerReturn(SetupOutcome(Err("DirectorErr"))) /\ scope' = scope
               ELSE IF ~DirectorOk(d)
               THEN HandlerReturn(Err("Unavailable")) /\ scope' = scope
               ELSE hpc' = "open" /\ scope' = "active" /\ result' = result
    /\ UNCHANGED <<fullMethodName, i, opened, closeSent, inTrailer,
                   i2oVars, o2iVars, inboundVars, outboundVars,
                   serverVars, codecVars, directorVars>>

\* Lines 69-78: grpc.NewClientStream, then the two goroutines are started,
\* each with its own channel and its own frame.  This is the last use of
\* fullMethodName.
HandlerOpen(ok) ==
    /\ hpc = "open"
    /\ fullMethodName' = "none"
    /\ IF ~ok
       THEN /\ HandlerReturn(SetupOutcome(Err("OpenErr")))
            /\ scope' = DeferredCancel(scope)
            /\ UNCHANGED <<opened, i, i2oVars, o2iPc, o2iF, o2iChan, o2iRet,
                           o2iHeld, oi>>
       ELSE /\ opened' = opened + 1
            /\ i2oPc' = "recv" /\ i2oF' = NewFrame /\ i2oChan' = <<>> /\ i2oRet' = <<>>
            /\ i2oHeld' = <<>> /\ o2iHeld' = <<>>
            /\ o2iPc' = "recv" /\ o2iF' = NewFrame /\ o2iChan' = <<>> /\ o2iRet' = <<>>
            /\ oi' = 0
            /\ hpc' = "loop" /\ i' = 0
            /\ UNCHANGED <<result, scope>>
    /\ UNCHANGED <<directorCalls, directed, closeSent, inTrailer, inHeader,
                   inboundVars, outboundVars, serverVars, codecVars, directorVars>>

\* Line 81 and line 111: the loop condition, and the return after the loop.
HandlerLoop ==
    /\ hpc = "loop"
    /\ IF i < LoopIters
       THEN hpc' = "select" /\ UNCHANGED <<result, scope>>
       ELSE /\ HandlerReturn(Err("InternalNeverReach"))
            /\ scope' = DeferredCancel(scope)
    /\ UNCHANGED <<fullMethodName, i, directorCalls, directed, opened, closeSent, inTrailer,
                   i2oVars, o2iVars, inboundVars, outboundVars,
                   serverVars, codecVars, directorVars>>

\* A wrong outcome: the inbound-to-outbound error is returned as it is.
UnwrappedFailure(e) == e

\* Line 94: status.Errorf(codes.Internal,
\* "failed proxying inbound to outbound: %v", inboundToOutboundErr)
InboundFailure(e) == Internal(e)

\* A wrong test: no report counts as the clean end of the input.
NeverCleanEnd(e) == FALSE

\* Line 84: inboundToOutboundErr == io.EOF
IsCleanEnd(e) == e = EOF

\* Lines 83-95: the report of the inbound-to-outbound goroutine is taken.
\* closeOk: clientStream.CloseSend() returned nil.
HandlerSelectI2O(closeOk) ==
    /\ hpc = "select"
    /\ i2oChan # <<>>
    /\ i2oChan' = Tail(i2oChan)
    /\ LET inboundToOutboundErr == Head(i2oChan) IN
       IF IsCleanEnd(inboundToOutboundErr)
       THEN IF closeOk
            THEN /\ closeSent' = TRUE
                 /\ i' = i + 1
                 /\ hpc' = "loop"
                 /\ UNCHANGED <<result, scope>>
            ELSE /\ HandlerReturn(Err("CloseSendErr"))
                 /\ scope' = DeferredCancel(scope)
                 /\ UNCHANGED <<closeSent, i>>
       ELSE /\ HandlerReturn(InboundFailure(inboundToOutboundErr))
            /\ scope' = DeferredCancel(Cancel(scope))
            /\ UNCHANGED <<closeSent, i>>
    /\ UNCHANGED <<fullMethodName, directorCalls, directed, opened, inTrailer, i2oPc, i2oF, i2oRet, i2oHeld,
                   o2iVars, inboundVars, outboundVars, serverVars, codecVars, directorVars>>

\* clientStream.Trailer(): the backend's trailer once RecvMsg has returned
\* the end of the stream; before that, whatever has arrived so far.
Trailers ==
    IF outFinished THEN {backendTrailer}
    ELSE IF backendEnd # "open" THEN {EmptyMD, backendTrailer}
    ELSE {EmptyMD}

\* A wrong outcome: the outbound error is wrapped like an inbound one.
WrappedOutcome(e) == IF e = EOF THEN Nil ELSE Internal(e)

\* Lines 100-106: the outcome of an outbound-to-inbound report.
OutboundOutcome(e) == IF e # EOF THEN e ELSE Nil

\* A wrong trailer: an empty trailer is set instead of the stream's.
NoTrailer(tr) == EmptyMD

\* Line 98: the metadata handed to serverStream.SetTrailer.
TrailerToSet(tr) == tr

\* A wrong order: the trailer is set on the clean end only.
SetTrailerOnCleanEnd(e, tr, set) ==
    IF e = EOF THEN Append(set, TrailerToSet(tr)) ELSE set

\* Line 98, before the test of line 100: serverStream.SetTrailer is called
\* whatever the report e is; set holds the calls made so far.
SetTrailer(e, tr, set) == Append(set, TrailerToSet(tr))

\* Lines 96-107: the report of the outbound-to-inbound goroutine is taken.
HandlerSelectO2I(tr) ==
    /\ hpc = "select"
    /\ o2iChan # <<>>
    /\ o2iChan' = Tail(o2iChan)
    /\ inTrailer' = SetTrailer(Head(o2iChan), tr, inTrailer)
    /\ HandlerReturn(OutboundOutcome(Head(o2iChan)))
    /\ scope' = DeferredCancel(scope)
    /\ UNCHANGED <<fullMethodName, i, directorCalls, directed, opened, closeSent,
                   i2oVars, o2iPc, o2iF, o2iRet, o2iHeld, oi, inHeader,
                   inboundVars, outboundVars, serverVars, codecVars, directorVars>>

\* --------------------------------------------- ForwardInboundToOutbound
\* A wrong channel: ret is unbuffered, a report is made only while the
\* handler is in its loop to take it.
I2OReportUnbuffered(err) ==
    /\ hpc \in {"loop", "select"}
    /\ i2oChan' = Append(i2oChan, err)
    /\ i2oRet' = Append(i2oRet, err)
    /\ i2oPc' = "done"

\* A wrong loop: the break is missing, the loop goes on after the report.
I2OReportNoBreak(err) ==
    /\ Len(i2oChan) < ChanCap
    /\ i2oChan' = Append(i2oChan, err)
    /\ i2oRet' = Append(i2oRet, err)
    /\ i2oPc' = "recv"

\* ret <- err; break
I2OReport(err) ==
    /\ Len(i2oChan) < ChanCap
    /\ i2oChan' = Append(i2oChan, err)
    /\ i2oRet' = Append(i2oRet, err)
    /\ i2oPc' = "done"

\* Line 167, src.RecvMsg(f): the next client message is unmarshalled into f.
I2ORecvMsg ==
    /\ i2oPc = "recv"
    /\ inRecvd < Len(clientSent)
    /\ i2oF' = Unmarshal(clientSent[inRecvd + 1], i2oF)
    /\ i2oHeld' = Overwritten(i2oHeld, clientSent[inRecvd + 1], i2oF)
    /\ inRecvd' = inRecvd + 1
    /\ i2oPc' = "send"
    /\ UNCHANGED <<i2oChan, i2oRet, clientSent, clientClosed, toClient,
                   handlerVars, o2iVars, outboundVars, serverVars, codecVars, directorVars>>

\* Lines 167-170, src.RecvMsg(f) fails: io.EOF once the client has
\* half-closed and every message was received, or a genuine error (the
\* client cancelled or went away, the handler has returned).
I2ORecvErr(err) ==
    /\ i2oPc = "recv"
    /\ err = EOF => (clientClosed /\ inRecvd = Len(clientSent))
    /\ I2OReport(err)
    /\ UNCHANGED <<i2oF, i2oHeld, inboundVars, handlerVars, o2iVars, outboundVars,
                   serverVars, codecVars, directorVars>>

\* A wrong send: the frame is not forwarded, an empty message is.
MarshalEmpty(f) == NilSlice

\* What dst.SendMsg(f) and codec.Marshal make of the frame.
SendPayload(f) == Marshal(f)

\* Line 173, dst.SendMsg(f): the frame's bytes are handed to the outbound
\* stream.
I2OSendMsg ==
    /\ i2oPc = "send"
    /\ scope = "active"
    /\ toBackend' = Append(toBackend, Bytes(SendPayload(i2oF)))
    /\ i2oHeld' = Handoff(i2oHeld, SendPayload(i2oF))
    /\ i2oPc' = "recv"
    /\ UNCHANGED <<i2oF, i2oChan, i2oRet, backendSent, backendHdr, backendEnd,
                   backendTrailer, outRecvd, outFinished,
                   handlerVars, o2iVars, inboundVars, serverVars, codecVars, directorVars>>

\* Lines 173-176, dst.SendMsg(f) fails: io.EOF when the stream has ended
\* (the backend ended the call or the scope is cancelled), or a genuine
\* error.
I2OSendErr(err) ==
    /\ i2oPc = "send"
    /\ err = EOF => (backendEnd # "open" \/ scope = "cancelled")
    /\ I2OReport(err)
    /\ UNCHANGED <<i2oF, i2oHeld, inboundVars, handlerVars, o2iVars, outboundVars,
                   serverVars, codecVars, directorVars>>

\* --------------------------------------------- ForwardOutboundToInbound
\* A wrong loop: the break is missing, the loop goes on after the report.
O2IReportNoBreak(err) ==
    /\ Len(o2iChan) < ChanCap
    /\ o2iChan' = Append(o2iChan, err)
    /\ o2iRet' = Append(o2iRet, err)
    /\ o2iPc' = "recv"

\* ret <- err; break
O2IReport(err) ==
    /\ Len(o2iChan) < ChanCap
    /\ o2iChan' = Append(o2iChan, err)
    /\ o2iRet' = Append(o2iRet, err)
    /\ o2iPc' = "done"

\* A wrong loop: the header step of the first message is skipped.
NoHeaderStep(n) == "send"

\* Line 130: where the loop goes after a received message, by its i.
AfterRecv(n) == IF n = 0 THEN "header" ELSE "send"

\* Line 125, src.RecvMsg(f): the next backend message is unmarshalled.
O2IRecvMsg ==
    /\ o2iPc = "recv"
    /\ outRecvd < Len(backendSent)
    /\ o2iF' = Unmarshal(backendSent[outRecvd + 1], o2iF)
    /\ o2iHeld' = Overwritten(o2iHeld, backendSent[outRecvd + 1], o2iF)
    /\ outRecvd' = outRecvd + 1
    /\ o2iPc' = AfterRecv(oi)
    /\ UNCHANGED <<o2iChan, o2iRet, oi, inHeader, toBackend, backendSent, backendHdr,
                   backendEnd, backendTrailer, outFinished,
                   handlerVars, i2oVars, inboundVars, serverVars, codecVars, directorVars>>

\* The error with which the backend's end of the call reaches RecvMsg.
BackendEndErr == IF backendEnd = "ok" THEN EOF ELSE Err("BackendStatus")

\* Lines 125-128, src.RecvMsg(f) returns the end of the stream: io.EOF or
\* the backend's status, after every message the backend sent.
O2IRecvEnd ==
    /\ o2iPc = "recv"
    /\ backendEnd # "open"
    /\ outRecvd = Len(backendSent)
    /\ O2IReport(BackendEndErr)
    /\ outFinished' = TRUE
    /\ UNCHANGED <<o2iF, o2iHeld, oi, inHeader, toBackend, backendSent, backendHdr,
                   backendEnd, backendTrailer, outRecvd,
                   handlerVars, i2oVars, inboundVars, serverVars, codecVars, directorVars>>

\* Lines 125-128, src.RecvMsg(f) fails on its own (the scope is cancelled,
\* the connection is lost).
O2IRecvErr ==
    /\ o2iPc = "recv"
    /\ O2IReport(Err("OutboundRecvErr"))
    /\ UNCHANGED <<o2iF, o2iHeld, oi, inHeader, outboundVars,
                   handlerVars, i2oVars, inboundVars, serverVars, codecVars, directorVars>>

\* Lines 134-143: src.Header(), then dst.SendHeader(md).
\* hdrOk, sendOk: whether the two calls succeed.
O2IHeader(hdrOk, sendOk) ==
    /\ o2iPc = "header"
    /\ IF ~hdrOk
       THEN O2IReport(Err("HeaderErr")) /\ inHeader' = inHeader
       ELSE IF ~sendOk
       THEN O2IReport(Err("SendHeaderErr")) /\ inHeader' = inHeader
       ELSE /\ inHeader' = Append(inHeader, backendHdr)
            /\ o2iPc' = "send"
            /\ o2iChan' = o2iChan /\ o2iRet' = o2iRet
    /\ UNCHANGED <<o2iF, o2iHeld, oi, outboundVars,
                   handlerVars, i2oVars, inboundVars, serverVars, codecVars, directorVars>>

\* Line 147, dst.SendMsg(f): the frame's bytes are handed to the inbound
\* stream; then i++.
O2ISendMsg ==
    /\ o2iPc = "send"
    /\ toClient' = Append(toClient, Bytes(SendPayload(o2iF)))
    /\ o2iHeld' = Handoff(o2iHeld, SendPayload(o2iF))
    /\ oi' = oi + 1
    /\ o2iPc' = "recv"
    /\ UNCHANGED <<o2iF, o2iChan, o2iRet, inHeader, clientSent, clientClosed, inRecvd,
                   handlerVars, i2oVars, outboundVars, serverVars, codecVars, directorVars>>

\* Lines 147-150, dst.SendMsg(f) fails.
O2ISendErr ==
    /\ o2iPc = "send"
    /\ O2IReport(Err("InboundSendErr"))
    /\ UNCHANGED <<o2iF, o2iHeld, oi, inHeader, outboundVars,
                   handlerVars, i2oVars, inboundVars, serverVars, codecVars, directorVars>>

\* ------------------------------------------------------- the environment
\* The client and the backend send while the goroutine that reads them
\* runs: a message sent earlier is read no earlier, one sent later is
\* never read.
Budget == Len(clientSent) + Len(backendSent) < MaxMsgs

\* The client sends a message on the inbound stream.
ClientSend(p) ==
    /\ i2oPc \in {"recv", "send"}
    /\ ~clientClosed
    /\ Budget
    /\ clientSent' = Append(clientSent, p)
    /\ UNCHANGED <<clientClosed, inRecvd, toClient,
                   handlerVars, i2oVars, o2iVars, outboundVars,
                   serverVars, codecVars, directorVars>>

\* The client half-closes the inbound stream.
ClientCloseSend ==
    /\ i2oPc \in {"recv", "send"}
    /\ ~clientClosed
    /\ clientClosed' = TRUE
    /\ UNCHANGED <<clientSent, inRecvd, toClient,
                   handlerVars, i2oVars, o2iVars, outboundVars,
                   serverVars, codecVars, directorVars>>

\* The backend sends its header metadata.
BackendSendHeader(md) ==
    /\ opened > 0 /\ backendEnd = "open"
    /\ backendHdr = "unset"
    /\ backendHdr' = md
    /\ UNCHANGED <<toBackend, backendSent, backendEnd, backendTrailer,
                   outRecvd, outFinished,
                   handlerVars, i2oVars, o2iVars, inboundVars,
                   serverVars, codecVars, directorVars>>

\* The backend sends a message (and with the first, an empty header if it
\* has sent none).
BackendSend(p) ==
    /\ opened > 0 /\ backendEnd = "open"
    /\ o2iPc # "done"
    /\ Budget
    /\ backendSent' = Append(backendSent, p)
    /\ backendHdr' = IF backendHdr = "unset" THEN EmptyMD ELSE backendHdr
    /\ UNCHANGED <<toBackend, backendEnd, backendTrailer, outRecvd,
                   outFinished,
                   handlerVars, i2oVars, o2iVars, inboundVars,
                   serverVars, codecVars, directorVars>>

\* The backend's handler returns: status OK or an error status, with its
\* trailing metadata (and an empty header if it has sent none).
BackendEnd(st, tr) ==
    /\ opened > 0 /\ backendEnd = "open"
    /\ backendEnd' = st
    /\ backendTrailer' = tr
    /\ backendHdr' = IF backendHdr = "unset" THEN EmptyMD ELSE backendHdr
    /\ UNCHANGED <<toBackend, backendSent, outRecvd, outFinished,
                   handlerVars, i2oVars, o2iVars, inboundVars,
                   serverVars, codecVars, directorVars>>

\* ------------------------------------------------------------------- Next
I2O ==
    \/ I2ORecvMsg
    \/ \E err \in {EOF, Err("InboundRecvErr")} : I2ORecvErr(err)
    \/ I2OSendMsg
    \/ \E err \in {EOF, Err("OutboundSendErr")} : I2OSendErr(err)

O2I ==
    \/ O2IRecvMsg
    \/ O2IRecvEnd
    \/ O2IRecvErr
    \/ \E hdrOk, sendOk \in BOOLEAN : O2IHeader(hdrOk, sendOk)
    \/ O2ISendMsg
    \/ O2ISendErr

Handler ==
    \/ \E ok \in BOOLEAN, d \in {"err", "nilconn", "ok"} : HandlerDirector(ok, d)
    \/ \E ok \in BOOLEAN : HandlerOpen(ok)
    \/ HandlerLoop
    \/ \E closeOk \in BOOLEAN : HandlerSelectI2O(closeOk)
    \/ \E tr \in Trailers : HandlerSelectO2I(tr)

Environment ==
    \/ \E p \in Messages : ClientSend(p)
    \/ ClientCloseSend
    \/ \E md \in MDs : BackendSendHeader(md)
    \/ \E p \in Messages : BackendSend(p)
    \/ \E st \in {"ok", "error"}, tr \in MDs : BackendEnd(st, tr)

Relay == Handler \/ I2O \/ O2I \/ Environment

\* The transparent proxy serving one call.
Next ==
    \/ \E m \in Methods : Dispatch(m)
    \/ Relay

Spec == Init /\ [][Next]_vars

\* The handler and the two goroutines keep running, and each stream
\* operation they are in returns: with a message or the end of the stream
\* if there is one, else with an error.
Fairness ==
    /\ WF_vars(Handler)
    /\ WF_vars(I2O)
    /\ WF_vars(O2I)

\* The transparent proxy serving one call, every operation returning.
SpecLive == Init /\ [][Next]_vars /\ Fairness

\* A server in restricted mode serving one call.
NextRestricted ==
    \/ \E names \in MethodLists : RegisterService(names)
    \/ \E m \in Methods : Dispatch(m)
    \/ Relay

SpecRestricted == InitRestricted /\ [][NextRestricted]_vars

\* ----------------------------------------------------------------- claims
IsPrefix(s, t) ==
    /\ Len(s) <= Len(t)
    /\ \A k \in 1..Len(s) : s[k] = t[k]

OutboundRelayedInOrder ==
    /\ IsPrefix(toClient, backendSent)
    /\ Len(toClient) <= outRecvd

\* Two backend messages went through the reused frame, the second shorter.
OutboundRelayedWitness ==
    /\ Len(toClient) = 2
    /\ Len(toClient[1]) > Len(toClient[2])
    /\ Len(toClient[2]) > 0

\* The handler returns from the select (either branch).
ReturnsFromSelect == hpc = "select" /\ hpc' = "done"

\* The handler returns through the outbound-to-inbound branch.
ReturnsThroughO2I == ReturnsFromSelect /\ o2iChan # <<>> /\ o2iChan' = <<>>

\* C3 as stated: whenever the outbound-to-inbound task has reported the
\* backend's error status, the handler returns exactly that error, whatever
\* the inbound-to-outbound task has reported.
StatusTransparentAlways ==
    [][(ReturnsFromSelect /\ o2iChan = <<Err("BackendStatus")>>)
          => result' = Err("BackendStatus")]_vars

\* C3 as amended: when the handler takes the outbound-to-inbound report of
\* the backend's error status (first, or after a clean inbound end and a
\* successful CloseSend), it returns exactly that error, untranslated.
StatusTransparentWhenTaken ==
    [][(ReturnsThroughO2I /\ Head(o2iChan) = Err("BackendStatus"))
          => result' = Err("BackendStatus")]_vars

\* The backend's status was returned after the inbound side had ended
\* cleanly and its report had been taken.
StatusTransparentWitness ==
    /\ hpc = "done" /\ result = Err("BackendStatus")
    /\ closeSent /\ i = 1

\* C4: no message is handed to the inbound stream, nor is about to be,
\* before SendHeader was called, once, with the backend's header metadata.
HeaderBeforeFirstMessage ==
    (o2iPc = "send" \/ Len(toClient) > 0)
        => (inHeader = <<backendHdr>> /\ backendHdr # "unset")

\* A response message was relayed after the backend's own header.
HeaderBeforeFirstMessageWitness ==
    /\ Len(toClient) = 1
    /\ inHeader = <<"x-target">>

\* C5 as stated: on every return of the handler after the backend's end of
\* the call, with trailing metadata, has reached the outbound stream, the
\* inbound trailer has been set to that metadata.
TrailerOnEveryExit ==
    [][(hpc # "done" /\ hpc' = "done" /\ outFinished
           /\ backendTrailer # EmptyMD)
          => inTrailer' = <<backendTrailer>>]_vars

\* C5 as amended: when the handler returns through the outbound-to-inbound
\* branch after that task's RecvMsg returned the backend's end of the call,
\* SetTrailer was called, once, with the backend's trailing metadata.
TrailerOnOutboundExit ==
    [][(ReturnsThroughO2I /\ outFinished)
          => inTrailer' = <<backendTrailer>>]_vars

\* A call that ended cleanly with the backend's trailer set.
TrailerWitness ==
    /\ hpc = "done" /\ result = Nil
    /\ inTrailer = <<"x-target">>

\* C6: when the director answers with an error, or with a nil connection,
\* the handler has returned that error, respectively Unavailable, no
\* outbound stream or scope was created and no goroutine was started.
NothingStarted ==
    /\ opened = 0 /\ scope = "none"
    /\ i2oPc = "idle" /\ o2iPc = "idle"
    /\ toBackend = <<>> /\ toClient = <<>>

RoutingFailureOpensNothing ==
    /\ directed = "err"
          => (hpc = "done" /\ result = Err("DirectorErr") /\ NothingStarted)
    /\ directed = "nilconn"
          => (hpc = "done" /\ result = Err("Unavailable") /\ NothingStarted)

\* The director returned a nil connection and the call ended Unavailable.
RoutingFailureWitness ==
    directed = "nilconn" /\ result = Err("Unavailable")

\* Whether the client's call has been dispatched and is still in the part
\* of the handler that holds its method name.
MethodKnown == hpc \in {"rejected", "director", "open"}

\* C7: in restricted mode a call to a method that is not among the
\* registered methodNames is ended with Unimplemented and stays so, the
\* director is never invoked for it; a call to a listed method is handed to
\* Handler.Handler; and the registered methods never change.
RestrictedModeWhitelist ==
    /\ [](MethodKnown =>
            /\ fullMethodName \notin Range(methodNames)
                  => (/\ hpc = "rejected"
                      /\ result = Err("Unimplemented")
                      /\ directorCalls = 0)
            /\ (registered /\ fullMethodName \in Range(methodNames))
                  => hpc # "rejected")
    /\ [][hpc = "rejected" => (hpc' = "rejected" /\ directorCalls' = 0)]_vars
    /\ [][registered =>
            (registered' /\ streams' = streams
               /\ methodNames' = methodNames)]_vars

\* Echo alone is registered and the call of Nope was rejected.
RestrictedModeWitness ==
    /\ registered /\ methodNames = <<"Echo">>
    /\ fullMethodName = "Nope" /\ hpc = "rejected"
    /\ result = Err("Unimplemented")

\* C8: whenever the handler has returned and the cancellable scope had been
\* created (the director answered with a connection), the scope is
\* cancelled, on every exit path.
CleanupOnEveryExit ==
    hpc = "done" =>
        /\ scope # "active"
        /\ directed = "ok" => scope = "cancelled"

\* A successful call (the outbound side ended cleanly) left its scope
\* cancelled.
CleanupWitness ==
    hpc = "done" /\ result = Nil /\ scope = "cancelled"

\* C9: after unmarshalling Marshal(f) into a frame (fresh, written before,
\* or f itself), that frame's payload bytes are those of f.
RoundTripKeepsPayload ==
    rt # <<>> => Bytes(cFrame.Payload) = Bytes(rt[1].Payload)

\* A round trip into a frame that held a longer payload.
RoundTripWitness ==
    /\ rt # <<>>
    /\ Len(Bytes(rt[1].Payload)) > 0
    /\ Len(Bytes(cPrev.Payload)) > Len(Bytes(rt[1].Payload))

\* C10: after any sequence of Unmarshal calls into one reused frame, its
\* payload is exactly the bytes of the last call; after a call with no
\* bytes the payload is empty.
ReuseLeavesNoResidue ==
    cLast # <<>> =>
        /\ Bytes(cFrame.Payload) = cLast[1]
        /\ Len(cLast[1]) = 0 => Len(Bytes(cFrame.Payload)) = 0

\* Empty bytes were unmarshalled into a frame that held a payload.
ReuseWitness ==
    /\ cLast = << <<>> >>
    /\ rt = <<>>
    /\ Len(Bytes(cPrev.Payload)) > 0
    /\ cFrame.Payload.nil

\* C11: every call of the default director returned the fixed connection
\* and a nil error; the outgoing metadata of a call holds every value of
\* the inbound metadata and is what that call alone made of its copy; the
\* inbound metadata is what the caller set.
DirectorCopiesMetadata ==
    /\ mdHeap[1] = inMD
    /\ \A c \in 1..Len(dCalls) :
          /\ dCalls[c].conn = BackendConn
          /\ dCalls[c].err = Nil
          /\ mdHeap[dCalls[c].md] = dCalls[c].own
          /\ \A k \in Keys : IsPrefix(inMD[k], mdHeap[dCalls[c].md][k])

\* x-test=1 came in, two calls were directed, and the first call's
\* outgoing metadata was changed while the second's still is the inbound.
DirectorCopiesWitness ==
    /\ inMD["x-test"] = <<"1">>
    /\ Len(dCalls) = 2
    /\ mdHeap[dCalls[1].md]["x-test"] = <<"1", "mut">>
    /\ mdHeap[dCalls[2].md] = inMD

\* Whether the handler has received or sent anything on either stream.
AnyRelayed ==
    \/ inRecvd > 0 \/ outRecvd > 0
    \/ toBackend # <<>> \/ toClient # <<>> \/ inHeader # <<>>

\* Whether the handler is past the director call or has returned.
PastSetup == hpc \in {"open", "loop", "select", "done"}

\* The director is called at most once and before anything is relayed, the
\* outbound stream is opened at most once, and a director error or an
\* outbound-open error is the handler's result as it is.
SetupOrder ==
    /\ directorCalls <= 1 /\ opened <= 1
    /\ (AnyRelayed \/ opened > 0) => directorCalls = 1
    /\ (hpc = "done" /\ directed = "err") => result = Err("DirectorErr")
    /\ (hpc = "done" /\ directed = "ok" /\ opened = 0)
          => result = Err("OpenErr")

\* C12 as stated: past its setup every call has invoked the director
\* exactly once, before anything was relayed; the outbound stream is opened
\* at most once; a director error or an open error is returned as it is.
DirectorExactlyOnce ==
    /\ SetupOrder
    /\ PastSetup => directorCalls = 1

\* C12, amended: as stated for every call whose method name the handler
\* could read off the stream; a call without one has returned the Internal
\* error of line 49 and the director was not invoked for it.
DirectorOnceWhenMethodKnown ==
    /\ SetupOrder
    /\ PastSetup =>
          IF hpc = "done" /\ result = Err("InternalNoStream")
          THEN directorCalls = 0 /\ opened = 0 /\ ~AnyRelayed
          ELSE directorCalls = 1

\* The director was invoked once, the one attempt to open the outbound
\* stream failed, and its error is the handler's result.
DirectorOnceWitness ==
    /\ hpc = "done" /\ directorCalls = 1 /\ directed = "ok"
    /\ opened = 0 /\ result = Err("OpenErr")

\* The engine has taken the report of the inbound-to-outbound goroutine
\* (only the first report taken can be that one: the other ends the call).
I2OTaken == i2oRet # <<>> /\ i2oChan = <<>>

\* The engine has taken the report of the outbound-to-inbound goroutine.
O2ITaken == o2iRet # <<>> /\ o2iChan = <<>>

\* The handler has returned what the outbound-to-inbound report determines.
OutcomeOfO2I == O2ITaken /\ result = OutboundOutcome(o2iRet[1])

\* C13 as stated: once the engine has taken the clean end of the input,
\* CloseSend has been done and the handler has not returned unless it has
\* taken the outbound-to-inbound report, which determines the outcome.
CleanEndWaitsAlways ==
    (I2OTaken /\ i2oRet[1] = EOF)
        => (closeSent /\ (hpc = "done" => OutcomeOfO2I))

\* C13, amended: the same whenever CloseSend succeeded; when it failed the
\* handler has returned its error without waiting.
CleanEndWaitsAfterCloseSend ==
    (I2OTaken /\ i2oRet[1] = EOF)
        => IF closeSent
           THEN hpc = "done" => OutcomeOfO2I
           ELSE hpc = "done" /\ result = Err("CloseSendErr")

\* The input ended cleanly first, CloseSend succeeded, and the handler
\* returned the backend's status it then took from the other goroutine.
CleanEndWaitsWitness ==
    /\ I2OTaken /\ i2oRet[1] = EOF /\ closeSent
    /\ hpc = "done" /\ o2iRet = <<Err("BackendStatus")>>
    /\ result = Err("BackendStatus")

\* C14: once the engine has taken a genuine error of the inbound-to-
\* outbound goroutine, the scope is cancelled and the handler has returned
\* the Internal error made of it, and the other goroutine's report was not
\* taken, whether or not it has been made.
GenuineInboundErrorEndsCall ==
    (I2OTaken /\ i2oRet[1] # EOF)
        => /\ hpc = "done" /\ scope = "cancelled"
           /\ result = Internal(i2oRet[1])
           /\ ~O2ITaken

\* The handler returned Internal for a failed inbound receive while the
\* outbound-to-inbound goroutine had not reported anything yet.
GenuineInboundErrorWitness ==
    /\ I2OTaken /\ i2oRet = <<Err("InboundRecvErr")>>
    /\ hpc = "done" /\ result = Internal(Err("InboundRecvErr"))
    /\ o2iRet = <<>>

\* The genuine errors of the operations on the backend-facing stream:
\* clientStream.RecvMsg, clientStream.Header, clientStream.SendMsg.
BackendFacingErrors ==
    {Err("OutboundRecvErr"), Err("BackendStatus"), Err("HeaderErr"),
     Err("OutboundSendErr")}

\* The genuine errors of the operations on the client-facing stream:
\* serverStream.RecvMsg, serverStream.SendHeader, serverStream.SendMsg.
ClientFacingErrors ==
    {Err("InboundRecvErr"), Err("SendHeaderErr"), Err("InboundSendErr")}

\* The reported error that determined the outcome of a returned call: the
\* genuine inbound-to-outbound report if the engine took one, else the
\* outbound-to-inbound report if the engine took it.
Determining ==
    IF hpc # "done" THEN {}
    ELSE IF I2OTaken /\ i2oRet[1] # EOF THEN {i2oRet[1]}
    ELSE IF O2ITaken THEN {o2iRet[1]}
    ELSE {}

\* C15: a genuine error of an operation on the backend-facing stream that
\* determined the outcome is the handler's result, as it is.
OutboundFailureVerbatim ==
    \A e \in Determining \cap BackendFacingErrors : result = e

\* C16: a genuine error of an operation on the client-facing stream that
\* determined the outcome is reported as Internal, and the outbound scope
\* is cancelled.
InboundFailureInternal ==
    \A e \in Determining \cap ClientFacingErrors :
        result = Internal(e) /\ scope = "cancelled"

\* C17: whenever the handler returns through the outbound-to-inbound
\* branch, whatever the report, it has called SetTrailer exactly once, with
\* the trailer the outbound stream has at that moment, and no other return
\* has set a trailer.
TrailerSetOnOutboundReport ==
    /\ [][ReturnsThroughO2I
            => /\ inTrailer = <<>> /\ Len(inTrailer') = 1
               /\ inTrailer'[1] \in Trailers
               /\ outFinished => inTrailer'[1] = backendTrailer]_vars
    /\ [](Len(inTrailer) = IF hpc = "done" /\ O2ITaken THEN 1 ELSE 0)

\* The backend's error status was taken second, after the clean end of the
\* input, and the backend's trailer was set on the inbound stream.
TrailerSetOnErrorWitness ==
    /\ hpc = "done" /\ closeSent /\ O2ITaken
    /\ o2iRet = <<Err("BackendStatus")>>
    /\ inTrailer = <<"x-target">>

\* C18: the handler never returns the error that follows the loop, and it
\* is never at the loop's test with the loop used up.
FallbackNeverReturned ==
    /\ result # Err("InternalNeverReach")
    /\ hpc = "loop" => i < LoopIters

\* The loop went round twice: the clean end of the input was taken first,
\* the clean end of the backend's stream second, and the call ended well.
FallbackNeverReturnedWitness ==
    /\ hpc = "done" /\ i = 1 /\ result = Nil
    /\ I2OTaken /\ O2ITaken

\* Whether a goroutine is in its loop / has left it.
I2ORunning == i2oPc \in {"recv", "send"}
O2IRunning == o2iPc \in {"recv", "header", "send"}

\* C19: each goroutine has sent at most one error on its channel, it has
\* left its loop exactly when it has sent one, and while it is in its loop
\* its channel has room, so that its send will not block, whether the
\* handler has returned or not.
OneReportNeverBlocks ==
    /\ Len(i2oRet) = (IF i2oPc = "done" THEN 1 ELSE 0)
    /\ Len(o2iRet) = (IF o2iPc = "done" THEN 1 ELSE 0)
    /\ I2ORunning => Len(i2oChan) < ChanCap
    /\ O2IRunning => Len(o2iChan) < ChanCap
    /\ Len(i2oChan) <= ChanCap /\ Len(o2iChan) <= ChanCap

\* The handler returned on the inbound-to-outbound goroutine's error; the
\* other goroutine has made its one report too, which nobody will take.
OneReportWitness ==
    /\ hpc = "done" /\ I2OTaken /\ i2oRet[1] # EOF
    /\ i2oPc = "done" /\ o2iPc = "done"
    /\ Len(o2iRet) = 1 /\ Len(o2iChan) = 1

\* The call has not reached the handler: none came, or it was rejected.
NotHandled == hpc \in {"idle", "rejected"}

\* C20: every stream operation returning, a call that reached the handler
\* ends up, for good, with the handler returned and both goroutines out of
\* their loops (or never started).
NoHangNoLeak ==
    <>[](NotHandled \/ (hpc = "done" /\ ~I2ORunning /\ ~O2IRunning))

\* The handler returned on a failed inbound receive, and the other
\* goroutine ended with the failure of its receive on the outbound stream.
NoHangNoLeakWitness ==
    /\ hpc = "done" /\ result = Internal(Err("InboundRecvErr"))
    /\ scope = "cancelled"
    /\ o2iPc = "done" /\ o2iRet = <<Err("OutboundRecvErr")>>
    /\ i2oPc = "done"

\* Whether the memory of a handed payload has held nothing but the bytes
\* it was handed with.
Untouched(h) == \A j \in DOMAIN h.mem : h.mem[j] = {h.at[j]}

\* C21: no byte of a payload that Marshal returned for a SendMsg, in either
\* direction, has been given another value since by the goroutine that owns
\* the frame, whatever it has received into the frame afterwards.
NoMutationAfterHandoff ==
    /\ \A k \in DOMAIN i2oHeld : Untouched(i2oHeld[k])
    /\ \A k \in DOMAIN o2iHeld : Untouched(o2iHeld[k])

\* The call has ended through the outbound path: the handler has returned
\* on the outbound-to-inbound report of the backend's end of the call, clean
\* or with its error status.
EndedThroughOutbound ==
    /\ hpc = "done" /\ O2ITaken
    /\ o2iRet[1] \in {EOF, Err("BackendStatus")}

\* The backend has sent header metadata of its own.
HeaderProduced == backendHdr # "unset" /\ backendHdr # EmptyMD

\* C22: when a call has ended through the outbound path and the backend
\* has produced header metadata, SendHeader has been called with it,
\* however many messages the backend sent; and SendHeader is never called
\* more than once.
HeaderOnEveryOutboundEnd ==
    /\ Len(inHeader) <= 1
    /\ (EndedThroughOutbound /\ HeaderProduced)
          => inHeader = <<backendHdr>>

\* The payloads the transport can read from the memory it was handed: any
\* value a byte has held since the hand-off can be the one it reads.
Readable(h) ==
    {w \in [1..Len(h.at) -> Byte] : \A j \in 1..Len(h.at) : w[j] \in h.mem[j]}

\* C2, at the caller: whatever the transport reads of the payloads handed
\* to the inbound stream, the caller receives a prefix of the messages the
\* backend sent, same order, same bytes.
OutboundReceivedIntact ==
    /\ Len(o2iHeld) <= Len(backendSent)
    /\ \A k \in DOMAIN o2iHeld :
          \A w \in Readable(o2iHeld[k]) : w = backendSent[k]

====
